---- MODULE Spec2Model ----
(***************************************************************************)
(* Contact (src/contact/models.py): the per-organization customer_id       *)
(* policy of Contact.save / Contact.get_default_customer_id, the field     *)
(* validators attached to addresses / emails / phones, and the create_date *)
(* / edit_date / uuid columns.                                             *)
(*                                                                         *)
(* A customer_id is a CharField: it is modelled as a sequence of character *)
(* codes ord(c) - ord("0"), so the digits are 0..9 and the letter "A" is   *)
(* 17.  The empty string is << >>, Python's None is the value None below.  *)
(***************************************************************************)
EXTENDS Integers, Sequences, FiniteSets, TLC

\* ---------------------------------------------------------------- bounds
NumInst == 2        \* Contact objects alive in memory at the same time
MaxContacts == 3    \* Contact(...) constructions in one behaviour
MaxCalls == 3       \* save() calls in one behaviour (serialized creations apart)
MaxClock == 2       \* timezone.now() ranges over 0..MaxClock
MaxSerialCreates == 6 \* creations of a serialized run that starts from the empty store
MaxRolloverSaves == 2 \* inserts of a serialized run that starts at the last five-digit id

\* ------------------------------------------------------- program constants
start_index == 10001

ADDRESS_TYPE_CHOICES == {"home", "billing", "business", "delivery", "mailing"}
PHONE_TYPE_CHOICES == {"office", "mobile", "home", "fax"}
EMAIL_TYPE_CHOICES == {"office", "private", "other"}

\* the keys of one entry, as the help_text of each field documents them
ADDRESS_KEYS == {"type", "street", "house_number", "postal_code", "city", "country"}
EMAIL_KEYS == {"type", "email"}
PHONE_KEYS == {"type", "number"}

\* ------------------------------------------------------------------ values
None == <<-1>>
EmptyStr == << >>
LetterA == 65 - 48

Orgs == {"A", "B"}
Inst == 1..NumInst

\* customer_ids a caller supplies: "9", "1A"
SuppliedIds == {<<9>>, <<1, LetterA>>}
\* customer_id left empty by the caller: None or ""
EmptyIds == {None, EmptyStr}

\* the organization and customer_id concurrent callers pass to Contact(...)
ContactInputs ==
    ({"A"} \X (EmptyIds \cup SuppliedIds)) \cup ({"B"} \X {None, <<9>>})

\* -------------------------------------------------- Python's int() and str()
\* int(s) raises ValueError unless s is a non-empty run of decimal digits
\* (over the alphabet modelled here: digits and the letter A)
IsNumeric(s) == s # None /\ Len(s) > 0 /\ \A k \in 1..Len(s) : s[k] \in 0..9

RECURSIVE int(_)
int(s) == IF Len(s) = 0 THEN 0
          ELSE 10 * int(SubSeq(s, 1, Len(s) - 1)) + s[Len(s)]

RECURSIVE str(_)
str(n) == IF n < 10 THEN <<n>> ELSE Append(str(n \div 10), n % 10)

\* ------------------------------------------ ORDER BY customer_id DESC, first
\* customer_id is a CharField, so the database orders it as text: character
\* by character, a proper prefix before its extensions.
StrLess(a, b) ==
    \E k \in 1..Len(b) :
        /\ k <= Len(a) + 1
        /\ \A j \in 1..(k - 1) : a[j] = b[j]
        /\ (k = Len(a) + 1 \/ a[k] < b[k])

MaxChar(C) == CHOOSE c \in C : \A d \in C : d <= c

\* the greatest string of S in text order; the strings of S agree on their
\* first k-1 characters
RECURSIVE GreatestFrom(_, _)
GreatestFrom(S, k) ==
    LET longer == {s \in S : Len(s) >= k}
    IN  IF longer = {} THEN CHOOSE s \in S : TRUE
        ELSE LET c == MaxChar({s[k] : s \in longer})
             IN  GreatestFrom({s \in longer : s[k] = c}, k + 1)

\* .order_by('-customer_id').first().customer_id, None for an empty queryset
first_desc(S) == IF S = {} THEN None ELSE GreatestFrom(S, 1)

\* the same query without filter(organization_uuid=..)
filter_exclude_any_org(rows, org) ==
    {rows[p].customer_id : p \in {q \in DOMAIN rows : rows[q].customer_id # None}}

\* objects.filter(organization_uuid=org).exclude(customer_id=None), projected
\* to the customer_id column
filter_exclude(rows, org) ==
    {rows[p].customer_id : p \in {q \in DOMAIN rows :
        rows[q].organization_uuid = org /\ rows[q].customer_id # None}}

\* get_default_customer_id without its except clause
get_default_customer_id_uncaught(rows, org) ==
    LET latest_customer_id == first_desc(filter_exclude(rows, org))
    IN  IF latest_customer_id = None
            THEN [exc |-> "AttributeError", value |-> None]
        ELSE IF IsNumeric(latest_customer_id)
            THEN [exc |-> "none", value |-> str(int(latest_customer_id) + 1)]
        ELSE [exc |-> "ValueError", value |-> None]

\* get_default_customer_id with "except Exception" for "except AttributeError"
get_default_customer_id_catch_all(rows, org) ==
    LET latest_customer_id == first_desc(filter_exclude(rows, org))
    IN  IF latest_customer_id # None /\ IsNumeric(latest_customer_id)
            THEN [exc |-> "none", value |-> str(int(latest_customer_id) + 1)]
        ELSE [exc |-> "none", value |-> str(start_index)]

\* get_default_customer_id: the next id, or the ValueError of int()
\* (only the AttributeError of None.customer_id is caught)
get_default_customer_id(rows, org) ==
    LET latest_customer_id == first_desc(filter_exclude(rows, org))
    IN  IF latest_customer_id = None
            THEN [exc |-> "none", value |-> str(start_index)]
        ELSE IF IsNumeric(latest_customer_id)
            THEN [exc |-> "none", value |-> str(int(latest_customer_id) + 1)]
        ELSE [exc |-> "ValueError", value |-> None]

\* --------------------------------------------------------------- validators
\* the validators of .validators, attached to the three collection fields:
\* every entry has the documented keys and a type of the field's enumeration
validate_entries(value, keys, choices) ==
    \A k \in 1..Len(value) :
        keys \subseteq DOMAIN value[k] /\ value[k].type \in choices

validate_addresses(value) == validate_entries(value, ADDRESS_KEYS, ADDRESS_TYPE_CHOICES)
validate_emails(value) == validate_entries(value, EMAIL_KEYS, EMAIL_TYPE_CHOICES)
validate_phones(value) == validate_entries(value, PHONE_KEYS, PHONE_TYPE_CHOICES)

\* the fields without validators=[validate_phones] on phones
field_validators_no_phones(c) ==
    /\ validate_addresses(c.addresses)
    /\ validate_emails(c.emails)

\* validators=[...] of the fields addresses, emails, phones
field_validators(c) ==
    /\ validate_addresses(c.addresses)
    /\ validate_emails(c.emails)
    /\ validate_phones(c.phones)

GoodAddress == [type |-> "billing", street |-> "s", house_number |-> "1",
                postal_code |-> "p", city |-> "c", country |-> "d"]
GoodEmail == [type |-> "office", email |-> "e"]
GoodPhone == [type |-> "mobile", number |-> "n"]

\* the collection attributes a caller passes to Contact(...)
EntrySamples ==
    { [addresses |-> <<GoodAddress>>, emails |-> <<GoodEmail>>, phones |-> <<GoodPhone>>],
      [addresses |-> <<[GoodAddress EXCEPT !.type = "office"]>>, emails |-> << >>, phones |-> << >>],
      [addresses |-> << >>, emails |-> <<GoodEmail, [type |-> "private"]>>, phones |-> << >>],
      [addresses |-> << >>, emails |-> << >>, phones |-> <<[GoodPhone EXCEPT !.type = "private"]>>] }

\* -------------------------------------------------------------------- state
VARIABLES
    store,  \* the contact table: row pk is store[pk], in insertion order
    inst,   \* the Contact objects in memory, and where each is in save()
    now,    \* timezone.now()
    made,   \* Contact objects constructed so far (the source of fresh uuids)
    calls   \* save() calls so far

vars == <<store, inst, now, made, calls>>

ValidEntries == CHOOSE e \in EntrySamples : field_validators(e)

\* a Contact object that was never constructed.  pc is the position in
\* save(); saves, consulted, read_at, result and cleaned record the last
\* call on the object (read_at: the length of the table when
\* get_default_customer_id read it).
NoContact ==
    [live |-> FALSE, pk |-> 0, organization_uuid |-> "A", customer_id |-> None,
     uuid |-> 0, create_date |-> 0, entries |-> ValidEntries,
     pc |-> "idle", saves |-> 0, consulted |-> FALSE, read_at |-> 0,
     result |-> "none", cleaned |-> "unchecked"]

Init ==
    /\ store = << >>
    /\ inst = [i \in Inst |-> NoContact]
    /\ now = 0
    /\ made = 0
    /\ calls = 0

\* the row with auto_now=True on create_date as well
row_of_auto_now_create(c, t) ==
    [organization_uuid |-> c.organization_uuid, customer_id |-> c.customer_id,
     uuid |-> c.uuid, create_date |-> t, edit_date |-> t]

\* the row super().save() writes for the object c: every column from the
\* object, edit_date from the clock (auto_now=True)
row_of(c, t) ==
    [organization_uuid |-> c.organization_uuid, customer_id |-> c.customer_id,
     uuid |-> c.uuid, create_date |-> c.create_date, edit_date |-> t]

\* Contact(organization_uuid=org, customer_id=cid, addresses=.., ..):
\* uuid defaults to a fresh uuid4, create_date to timezone.now()
new_contact(org, cid, e, t, n) ==
    [NoContact EXCEPT !.live = TRUE, !.organization_uuid = org,
                      !.customer_id = cid, !.uuid = n, !.create_date = t,
                      !.entries = e]

\* save() without "if not self.customer_id": it always assigns the default
save_assign_always(c, rows) ==
    LET called == [c EXCEPT !.saves = c.saves + 1, !.consulted = TRUE,
                            !.read_at = Len(rows), !.result = "none"]
        next == get_default_customer_id(rows, c.organization_uuid)
    IN  IF next.exc # "none"
        THEN [called EXCEPT !.result = next.exc]
        ELSE [called EXCEPT !.customer_id = next.value, !.pc = "write"]

\* save(), lines 132-133, on the object c against the table rows: the
\* object as it stands before super().save(), or as the exception of
\* get_default_customer_id leaves it
save_assign(c, rows) ==
    LET called == [c EXCEPT !.saves = c.saves + 1, !.consulted = FALSE,
                            !.read_at = 0, !.result = "none"]
        next == get_default_customer_id(rows, c.organization_uuid)
    IN  IF c.customer_id \in EmptyIds
        THEN IF next.exc # "none"
             THEN [called EXCEPT !.consulted = TRUE, !.read_at = Len(rows),
                                 !.result = next.exc]
             ELSE [called EXCEPT !.consulted = TRUE, !.read_at = Len(rows),
                                 !.customer_id = next.value, !.pc = "write"]
        ELSE [called EXCEPT !.pc = "write"]

\* super().save() against a table with a unique constraint on
\* (organization_uuid, customer_id): the INSERT of a duplicate is refused
super_save_rows_unique(c, rows, t) ==
    IF c.pk # 0 THEN [rows EXCEPT ![c.pk] = row_of(c, t)]
    ELSE IF \E p \in DOMAIN rows :
                /\ rows[p].organization_uuid = c.organization_uuid
                /\ rows[p].customer_id = c.customer_id
         THEN rows
         ELSE Append(rows, row_of(c, t))

\* super().save(), line 134: INSERT for an object without a pk, else UPDATE
super_save_rows(c, rows, t) ==
    IF c.pk = 0 THEN Append(rows, row_of(c, t))
    ELSE [rows EXCEPT ![c.pk] = row_of(c, t)]

super_save_obj(c, rows) ==
    [c EXCEPT !.pk = IF c.pk = 0 THEN Len(rows) + 1 ELSE c.pk,
              !.pc = "idle", !.result = "ok"]

\* ------------------------------------------------------------------ actions
\* a caller constructs a Contact in slot i; the object that was there is
\* one the caller is done with (it was saved, or its save raised).  Slots
\* are names for objects and interchangeable: fresh ones are taken in order.
Contact(i, org, cid, e) ==
    /\ inst[i].pc = "idle"
    /\ \A j \in 1..(i - 1) : inst[j].live
    /\ ~inst[i].live \/ inst[i].saves > 0
    /\ made < MaxContacts
    /\ inst' = [inst EXCEPT ![i] = new_contact(org, cid, e, now, made + 1)]
    /\ made' = made + 1
    /\ UNCHANGED <<store, now, calls>>

\* save() up to the call of super().save()
save(i) ==
    /\ inst[i].live
    /\ inst[i].pc = "idle"
    /\ calls < MaxCalls
    /\ calls' = calls + 1
    /\ inst' = [inst EXCEPT ![i] = save_assign(inst[i], store)]
    /\ UNCHANGED <<store, now, made>>

\* the super().save() of a save() in progress
super_save(i) ==
    /\ inst[i].pc = "write"
    /\ store' = super_save_rows(inst[i], store, now)
    /\ inst' = [inst EXCEPT ![i] = super_save_obj(inst[i], store)]
    /\ UNCHANGED <<now, made, calls>>

\* save() as a whole, for callers that do not run concurrently: nothing
\* happens between its read of the table and its write
save_serialized(i) ==
    LET c == save_assign(inst[i], store)
    IN  /\ inst[i].live
        /\ inst[i].pc = "idle"
        /\ calls < MaxCalls
        /\ calls' = calls + 1
        /\ IF c.pc = "write"
           THEN /\ store' = super_save_rows(c, store, now)
                /\ inst' = [inst EXCEPT ![i] = super_save_obj(c, store)]
           ELSE /\ store' = store
                /\ inst' = [inst EXCEPT ![i] = c]
        /\ UNCHANGED <<now, made>>

\* validation of a Contact before it is saved (Model.full_clean()): runs
\* the validators of every field, writes nothing
full_clean(i) ==
    /\ inst[i].live
    /\ inst[i].saves = 0
    /\ inst[i].cleaned = "unchecked"
    /\ inst' = [inst EXCEPT ![i].cleaned =
                    IF field_validators(inst[i].entries) THEN "clean"
                    ELSE "ValidationError"]
    /\ UNCHANGED <<store, now, made, calls>>

Tick ==
    /\ now < MaxClock
    /\ now' = now + 1
    /\ UNCHANGED <<store, inst, made, calls>>

\* concurrent callers that save Contacts with and without a customer_id
Next ==
    \/ \E i \in Inst, in \in ContactInputs :
           Contact(i, in[1], in[2], ValidEntries)
    \/ \E i \in Inst : save(i)
    \/ \E i \in Inst : super_save(i)

Spec == Init /\ [][Next]_vars

\* callers, one at a time, that save and re-save Contacts of one
\* organization while the clock advances
NextDates ==
    \/ \E i \in Inst : Contact(i, "A", None, ValidEntries)
    \/ \E i \in Inst : save_serialized(i)
    \/ Tick

SpecDates == Init /\ [][NextDates]_vars

\* callers, one at a time, that pass valid and invalid addresses, emails
\* and phones, and either validate a Contact before they save it or save
\* it directly
NextClean ==
    \/ \E i \in Inst, e \in EntrySamples : Contact(i, "A", None, e)
    \/ \E i \in Inst : full_clean(i)
    \/ \E i \in Inst : save_serialized(i)

SpecClean == Init /\ [][NextClean]_vars

\* ------------------------------------------------------- serialized callers
\* The table after 99999 - start_index + 1 serialized saves without a
\* customer_id into organization "A" of an empty table: the ids "10001" ..
\* "99999".  All have five digits, so text order and numeric order agree on
\* them and each of these saves found the numeric maximum.
RolloverRows == 99999 - start_index + 1

RolloverStore ==
    << >> \o [p \in 1..RolloverRows |->
        [organization_uuid |-> "A", customer_id |-> str(start_index + p - 1),
         uuid |-> p, create_date |-> 0, edit_date |-> 0]]

InitSerial ==
    /\ store \in {<< >>, RolloverStore}
    /\ inst = [i \in Inst |-> NoContact]
    /\ now = 0
    /\ made = Len(store)
    /\ calls = Len(store)

\* Contact.objects.create(organization_uuid=org): Contact(...) and save()
\* with nothing in between the read and the write
objects_create(org, cid) ==
    LET c == save_assign(new_contact(org, cid, ValidEntries, now, made + 1), store)
    IN  /\ \/ made < MaxSerialCreates
           \/ made >= RolloverRows /\ made < RolloverRows + MaxRolloverSaves
        /\ made' = made + 1
        /\ calls' = calls + 1
        /\ now' = now
        /\ IF c.pc = "write"
           THEN /\ store' = super_save_rows(c, store, now)
                /\ inst' = [inst EXCEPT ![1] = super_save_obj(c, store)]
           ELSE /\ store' = store
                /\ inst' = [inst EXCEPT ![1] = c]

NextSerial == \E org \in Orgs, cid \in EmptyIds : objects_create(org, cid)

SpecSerial == InitSerial /\ [][NextSerial]_vars

\* one caller at a time that creates Contacts with and without a customer_id
NextSeq == \E org \in Orgs, cid \in EmptyIds \cup SuppliedIds : objects_create(org, cid)

SpecSeq == Init /\ [][NextSeq]_vars

\* ---------------------------------------------------------------- the claims
\* the non-null customer_ids the table holds for an organization
ExistingIds(org) ==
    {store[p].customer_id : p \in {q \in DOMAIN store :
        store[q].organization_uuid = org /\ store[q].customer_id # None}}

\* the step is a call of save() on the object in slot i
SaveStep(i) == inst[i].live /\ inst'[i].saves = inst[i].saves + 1

\* the step is, or ends with, the super().save() of the object in slot i
WriteStep(i) ==
    \/ inst[i].pc = "write" /\ inst'[i].pc = "idle"
    \/ SaveStep(i) /\ inst'[i].result = "ok"

\* the step is a save() that has to find a customer_id for the object
AssignStep(i) == SaveStep(i) /\ inst[i].customer_id \in EmptyIds

\* the step is a save() that raises and writes nothing
Raises(i, exc) ==
    /\ inst'[i].result = exc
    /\ inst'[i].pc = "idle"
    /\ inst'[i].customer_id = inst[i].customer_id
    /\ inst'[i].pk = inst[i].pk
    /\ store' = store

NumericMax(S) == CHOOSE m \in {int(s) : s \in S} : \A s \in S : int(s) <= m

\* the greatest of a set of strings in text order, from the order alone
TextGreatest(S) == CHOOSE s \in S : \A t \in S : ~StrLess(s, t)

\* the table holds the row of the object, with the object's customer_id
Persisted(c) ==
    /\ c.pk \in DOMAIN store
    /\ store[c.pk].uuid = c.uuid
    /\ store[c.pk].customer_id = c.customer_id

\* C1: a save() of a Contact with an empty customer_id into an organization
\* whose existing customer_ids are numeric assigns str(numeric maximum + 1)
C1_NumericMaxPlusOne ==
    [][\A i \in Inst :
        (/\ AssignStep(i)
         /\ ExistingIds(inst[i].organization_uuid) # {}
         /\ \A s \in ExistingIds(inst[i].organization_uuid) : IsNumeric(s))
        => /\ inst'[i].pc = "write"
           /\ inst'[i].customer_id =
                  str(NumericMax(ExistingIds(inst[i].organization_uuid)) + 1)]_vars

\* C2: no two rows of one organization have the same non-empty customer_id
C2_UniquePerOrganization ==
    \A p, q \in DOMAIN store :
        (/\ p # q
         /\ store[p].organization_uuid = store[q].organization_uuid
         /\ store[p].customer_id \notin EmptyIds)
        => store[p].customer_id # store[q].customer_id

\* C3: save() of a Contact with a non-empty customer_id does not consult
\* get_default_customer_id and leaves the customer_id as it is, and
\* super().save() persists that customer_id; a re-save leaves the row's
\* customer_id as it was
C3_NonEmptyIdKept ==
    [][\A i \in Inst :
        /\ (SaveStep(i) /\ inst[i].customer_id \notin EmptyIds)
            => /\ ~inst'[i].consulted
               /\ inst'[i].customer_id = inst[i].customer_id
               /\ inst'[i].pc = "write"
               /\ store' = store
        /\ WriteStep(i)
            => /\ inst'[i].pk \in DOMAIN store'
               /\ store'[inst'[i].pk].customer_id = inst[i].customer_id
               /\ inst[i].pk # 0 => store'[inst[i].pk].customer_id
                                        = store[inst[i].pk].customer_id]_vars

C3_Witness ==
    \E i \in Inst :
        /\ inst[i].result = "ok" /\ ~inst[i].consulted
        /\ inst[i].saves = 2
        /\ inst[i].customer_id = <<9>>
        /\ Persisted(inst[i])
        /\ \E q \in DOMAIN store :
               /\ q # inst[i].pk
               /\ store[q].organization_uuid = inst[i].organization_uuid

\* C4: save() of a Contact with an empty customer_id into an organization
\* that holds no non-null customer_id assigns "10001", and that is the
\* customer_id super().save() persists
C4_FirstIdIs10001 ==
    [][\A i \in Inst :
        /\ (AssignStep(i) /\ ExistingIds(inst[i].organization_uuid) = {})
            => /\ inst'[i].customer_id = <<1, 0, 0, 0, 1>>
               /\ inst'[i].pc = "write"
        /\ (WriteStep(i) /\ inst[i].consulted)
            => /\ inst'[i].pk \in DOMAIN store'
               /\ store'[inst'[i].pk].customer_id = inst[i].customer_id]_vars

C4_Witness ==
    \E i \in Inst :
        /\ inst[i].result = "ok" /\ inst[i].consulted
        /\ Persisted(inst[i])
        /\ store[inst[i].pk].customer_id = <<1, 0, 0, 0, 1>>
        /\ \A q \in DOMAIN store :
               store[q].organization_uuid = inst[i].organization_uuid => q = inst[i].pk

\* the rows of one organization, the others deleted
OnlyOrg(rows, org) == SelectSeq(rows, LAMBDA r : r.organization_uuid = org)

\* C5: what save() assigns to a Contact of an organization (or the fault it
\* raises) is what it would assign if the table held that organization's
\* rows only; the first Contact of an organization gets "10001" whatever
\* the other organizations hold
C5_ScopedToOrganization ==
    [][\A i \in Inst :
        AssignStep(i) =>
            LET alone == get_default_customer_id(
                             OnlyOrg(store, inst[i].organization_uuid),
                             inst[i].organization_uuid)
            IN  /\ alone.exc = "ValueError" => Raises(i, "ValueError")
                /\ alone.exc = "none" => inst'[i].customer_id = alone.value
                /\ OnlyOrg(store, inst[i].organization_uuid) = << >>
                       => inst'[i].customer_id = <<1, 0, 0, 0, 1>>]_vars

C5_Witness ==
    \E i \in Inst :
        /\ inst[i].result = "ok" /\ inst[i].consulted
        /\ Persisted(inst[i])
        /\ inst[i].customer_id = <<1, 0, 0, 0, 1>>
        /\ inst[i].read_at >= 2
        /\ \A q \in 1..inst[i].read_at :
               /\ store[q].organization_uuid # inst[i].organization_uuid
               /\ IsNumeric(store[q].customer_id)

\* an entry of addresses, emails or phones lacks a key or has a type outside
\* its enumeration
HasInvalidEntry(e) ==
    \/ ~validate_addresses(e.addresses)
    \/ ~validate_emails(e.emails)
    \/ ~validate_phones(e.phones)

\* C6 as claimed: a Contact with an invalid address, email or phone entry
\* is never written: no save() of it gets as far as super().save()
C6_SaveRejectsInvalid ==
    \A i \in Inst :
        HasInvalidEntry(inst[i].entries) => inst[i].pc = "idle" /\ inst[i].pk = 0

\* C6 amended: validation (full_clean) of a Contact raises a validation
\* error exactly when an entry of addresses, emails or phones is invalid,
\* and writes nothing
C6_FullCleanRejectsInvalid ==
    [][\A i \in Inst :
        (inst'[i].cleaned # inst[i].cleaned /\ inst'[i].cleaned # "unchecked")
        => /\ inst'[i].cleaned = "ValidationError"
                  <=> HasInvalidEntry(inst[i].entries)
           /\ inst'[i].cleaned = "clean"
                  <=> ~HasInvalidEntry(inst[i].entries)
           /\ store' = store
           /\ inst'[i].pk = inst[i].pk]_vars

C6_Witness ==
    \E i, j \in Inst :
        /\ inst[i].cleaned = "ValidationError" /\ inst[i].pk = 0
        /\ ~validate_emails(inst[i].entries.emails)
        /\ inst[j].cleaned = "ValidationError"
        /\ ~validate_phones(inst[j].entries.phones)

\* two save() calls of new Contacts of one organization that both read the
\* table before either wrote it
Racing(i, j) ==
    /\ i # j
    /\ inst[i].live /\ inst[j].live
    /\ inst[i].consulted /\ inst[j].consulted
    /\ inst[i].saves = 1 /\ inst[j].saves = 1
    /\ inst[i].result # "ValueError" /\ inst[j].result # "ValueError"
    /\ inst[i].organization_uuid = inst[j].organization_uuid
    /\ inst[i].read_at = inst[j].read_at

\* C7: two racing save() calls computed the same customer_id, the one that
\* has not written yet can write, and the one that has written holds a row
\* with that customer_id
C7_RaceAssignsSameId ==
    \A i, j \in Inst :
        Racing(i, j) =>
            /\ inst[i].customer_id = inst[j].customer_id
            /\ inst[i].pc = "write" => ENABLED super_save(i)
            /\ inst[i].pc = "idle" => Persisted(inst[i])

C7_Witness ==
    \E i, j \in Inst :
        /\ Racing(i, j)
        /\ inst[i].result = "ok" /\ inst[j].result = "ok"
        /\ Persisted(inst[i]) /\ Persisted(inst[j])
        /\ inst[i].pk # inst[j].pk
        /\ store[inst[i].pk].organization_uuid = store[inst[j].pk].organization_uuid
        /\ store[inst[i].pk].customer_id = store[inst[j].pk].customer_id

C9_DatesAndUuid ==
    [][/\ \A p \in DOMAIN store :
              /\ p \in DOMAIN store'
              /\ store'[p].create_date = store[p].create_date
              /\ store'[p].uuid = store[p].uuid
              /\ store'[p].edit_date >= store[p].edit_date
       /\ \A i \in Inst :
              WriteStep(i) =>
                  /\ store'[inst'[i].pk].edit_date = now
                  /\ store'[inst'[i].pk].uuid = inst[i].uuid
                  /\ store'[inst'[i].pk].create_date = inst[i].create_date
       /\ \A p \in DOMAIN store' :
              store'[p].edit_date >= store'[p].create_date]_vars

C9_Witness ==
    \E i \in Inst :
        /\ inst[i].saves = 2 /\ inst[i].result = "ok"
        /\ Persisted(inst[i])
        /\ store[inst[i].pk].create_date = 0
        /\ store[inst[i].pk].edit_date = 2
        /\ \E q \in DOMAIN store : store[q].edit_date = 1

\* C10: in a serialized run without caller-supplied customer_ids the k-th
\* Contact inserted into an organization gets str(10000 + k)
C10_KthGetsStartPlusK ==
    [][Len(store') = Len(store) + 1 =>
        LET p == Len(store')
            k == Cardinality({q \in DOMAIN store' :
                     store'[q].organization_uuid = store'[p].organization_uuid})
        IN  store'[p].customer_id = str(10000 + k)]_vars

====
